---- MODULE Spec2Model ----
(***************************************************************************)
(* Azure cost analyzer: the fetch -> normalize -> preprocess -> persist    *)
(* pipeline (services/cost_tasks.py, services/cost_service.py,             *)
(* models/cost_models.py) and its reconciliation against the relational    *)
(* store (db/operations.py, db/models.py, db/database.py).                 *)
(*                                                                         *)
(* The store is PostgreSQL (config.py: DATABASE_URL is a PostgresDsn) at   *)
(* its default isolation level READ COMMITTED: a statement sees the rows   *)
(* committed before it starts plus the writes of its own transaction, an   *)
(* UPDATE waits for the transaction holding the row and then re-reads the  *)
(* row, and a unique index makes a writer wait for an in-progress writer   *)
(* of the same key and fail once that key is live.                         *)
(***************************************************************************)
EXTENDS Integers, Sequences, FiniteSets, TLC

\* ------------------------------------------------------------------ bounds
NWin == 3
MaxCalls == 4
MaxBatch == 2
\* The largest max_retries wait_for_db is called with.
MaxRetries == 3

Windows == 1..NWin
\* The concurrent callers: a scheduled job and a second job or request.
Runs == {1, 2}

VARIABLES
    month,      \* date.today() as a month index: the window of get_current_month_period
    periods,    \* committed rows of billing_period: [id, win, cur]
    services,   \* committed rows of azure_service: [id, name]
    facts,      \* committed rows of service_cost: [id, sid, pid, amt, ccy, made]
    dfacts,     \* committed rows of daily_cost: [id, day, pid, amt, ccy, made]
    nextId,     \* the autoincrement sequences, one per table (never rolled back)
    tx,         \* per session: the uncommitted row versions of its open transaction
    run,        \* per caller: its position and local variables
    calls,      \* calls started in this behaviour
    db,         \* the call of wait_for_db: its position, arguments and locals
    scheduler   \* the module's global scheduler handle and the instances made

vars == <<month, periods, services, facts, dfacts, nextId, tx, run, calls, db,
          scheduler>>

Min(a, b) == IF a < b THEN a ELSE b

\* ------------------------------------------------------------ raw values
\* A Python value of a result cell: a str (its characters), an int or float
\* (in thousandths), or None.
Str(s) == [t |-> "str", s |-> s, n |-> 0]
Num(n) == [t |-> "num", s |-> <<>>, n |-> n]
None == [t |-> "none", s |-> <<>>, n |-> 0]
\* An int kept whole (a UsageDate such as 20240115).
Whole(n) == [t |-> "int", s |-> <<>>, n |-> n]

Digits == <<"0", "1", "2", "3", "4", "5", "6", "7", "8", "9">>
IsDigit(c) == \E d \in 1..10 : Digits[d] = c
DigitVal(c) == (CHOOSE d \in 1..10 : Digits[d] = c) - 1
IsSpace(c) == c = " "

RECURSIVE LStrip(_)
LStrip(s) == IF s # <<>> /\ IsSpace(Head(s)) THEN LStrip(Tail(s)) ELSE s

RECURSIVE RStrip(_)
RStrip(s) ==
    IF s # <<>> /\ IsSpace(s[Len(s)]) THEN RStrip(SubSeq(s, 1, Len(s) - 1)) ELSE s

\* str.strip()
Strip(s) == RStrip(LStrip(s))

Lower == <<"a", "b", "c", "d", "e", "f", "g", "h", "i", "j", "k", "l", "m",
           "n", "o", "p", "q", "r", "s", "t", "u", "v", "w", "x", "y", "z">>
Upper == <<"A", "B", "C", "D", "E", "F", "G", "H", "I", "J", "K", "L", "M",
           "N", "O", "P", "Q", "R", "S", "T", "U", "V", "W", "X", "Y", "Z">>
UpperChar(c) ==
    IF \E k \in 1..26 : Lower[k] = c THEN Upper[CHOOSE k \in 1..26 : Lower[k] = c] ELSE c

\* A currency validator that keeps the text as it came.
KeepCase(s) == s

\* validate_currency_code: v.upper()
validate_currency_code(s) == [k \in 1..Len(s) |-> UpperChar(s[k])]

\* ------------------------------------------------------------- decimals
RECURSIVE DigitsValue(_)
DigitsValue(s) ==
    IF s = <<>> THEN 0 ELSE 10 * DigitsValue(SubSeq(s, 1, Len(s) - 1)) + DigitVal(s[Len(s)])

AllDigits(s) == \A k \in 1..Len(s) : IsDigit(s[k])

\* Decimal(str) for the integer digits ip and fraction digits fp of an
\* unsigned literal of at most three fractional digits, in thousandths; -1
\* when the text is no such literal.
Scale(n) == CASE n = 0 -> 1000 [] n = 1 -> 100 [] n = 2 -> 10 [] OTHER -> 1

Literal(ip, fp) ==
    IF Len(ip) + Len(fp) = 0 \/ Len(fp) > 3 \/ ~AllDigits(ip) \/ ~AllDigits(fp)
    THEN -1
    ELSE 1000 * DigitsValue(ip) + Scale(Len(fp)) * DigitsValue(fp)

CutAt(s, d) == Literal(SubSeq(s, 1, d - 1), SubSeq(s, d + 1, Len(s)))

SplitAt(s, dots) ==
    IF dots = {} THEN Literal(s, <<>>)
    ELSE IF Cardinality(dots) > 1 THEN -1
    ELSE CutAt(s, CHOOSE k \in dots : TRUE)

UnsignedMilli(s) == SplitAt(s, {k \in 1..Len(s) : s[k] = "."})

Unsigned(u) == IF u # <<>> /\ Head(u) \in {"-", "+"} THEN Tail(u) ELSE u
Signed(neg, m) == [ok |-> m >= 0, milli |-> IF neg THEN 0 - m ELSE m]
SignedLiteral(u) == Signed(u # <<>> /\ Head(u) = "-", UnsignedMilli(Unsigned(u)))

\* Decimal(v) of a str: surrounding whitespace is ignored, a sign is allowed;
\* anything else raises decimal.InvalidOperation (ok = FALSE).
ParseDecimal(s) == SignedLiteral(Strip(s))

\* Decimal.quantize(Decimal("0.01")) of a value in thousandths, in cents,
\* under the default context's rounding ROUND_HALF_EVEN.
HalfEven(q, rem) == IF rem > 5 \/ (rem = 5 /\ q % 2 = 1) THEN q + 1 ELSE q
Quantize(m) ==
    IF m < 0 THEN 0 - HalfEven((0 - m) \div 10, (0 - m) % 10)
    ELSE HalfEven(m \div 10, m % 10)

Parsed(p) ==
    IF p.ok THEN [exc |-> "none", cents |-> Quantize(p.milli)]
    ELSE [exc |-> "InvalidOperation", cents |-> 0]

\* validate_cost_amount(v): the cents, or the exception Decimal(...) raises.
validate_cost_amount(v) ==
    CASE v.t = "num" -> [exc |-> "none", cents |-> Quantize(v.n)]
      [] v.t = "int" -> [exc |-> "none", cents |-> 100 * v.n]
      [] v.t = "str" -> Parsed(ParseDecimal(v.s))
      [] OTHER -> [exc |-> "TypeError", cents |-> 0]

Unknown == <<"U", "n", "k", "n", "o", "w", "n">>
INR == <<"I", "N", "R">>

\* CostRecord.validate_service_name: v.strip() if v else "Unknown"
validate_service_name(s) == IF s # <<>> THEN Strip(s) ELSE Unknown

\* dict.get(key, default)
Get(m, k, d) == IF k \in DOMAIN m THEN m[k] ELSE d

\* CostRecord(service_name=name, cost=cost, currency=ccy): the exception of
\* the construction.  The cost validator runs before the field types are
\* checked; whatever it raises that is no ValueError leaves pydantic as it is.
Construction(name, cost, ccy) ==
    CASE cost.exc # "none" -> cost.exc
      [] name.t # "str" \/ ccy.t # "str" \/ cost.cents < 0 -> "ValidationError"
      [] OTHER -> "none"

Fields(name, cost, ccy) ==
    [exc |-> Construction(name, cost, ccy),
     rec |-> [service_name |-> validate_service_name(name.s),
              cost |-> cost.cents,
              currency |-> validate_currency_code(ccy.s)]]

\* The record of one mapping, as the loop of preprocess_service_costs
\* builds it.
CostRecord(raw) ==
    Fields(Get(raw, "ServiceName", Str(Unknown)),
           validate_cost_amount(Get(raw, "Cost", Num(0))),
           Get(raw, "Currency", Str(INR)))

\* except (ValueError, TypeError): pydantic's ValidationError is a ValueError.
Caught(exc) == exc \in {"ValidationError", "ValueError", "TypeError"}

\* One turn of the loop over raw_costs, given what the turns after it do:
\* an uncaught exception ends the loop, a caught one skips the mapping.
Turn(c, rest) ==
    IF c.exc # "none" /\ ~Caught(c.exc) THEN [exc |-> c.exc, recs |-> <<>>]
    ELSE IF c.exc # "none" \/ rest.exc # "none" THEN rest
    ELSE [rest EXCEPT !.recs = <<c.rec>> \o @]

RECURSIVE Validated(_)
\* processed_records of the loop over raw_costs.
Validated(raws) ==
    IF raws = <<>> THEN [exc |-> "none", recs |-> <<>>]
    ELSE Turn(CostRecord(Head(raws)), Validated(Tail(raws)))

\* if not processed_records and raw_costs: raise DataValidationError
NoneValid(raws, out) ==
    IF out.exc = "none" /\ out.recs = <<>> /\ raws # <<>>
    THEN [exc |-> "DataValidationError", recs |-> <<>>]
    ELSE out

\* preprocess_service_costs(raw_costs, start, end): its records, or the
\* exception that leaves it.
preprocess_service_costs(raws) == NoneValid(raws, Validated(raws))

\* normalize_cost_response(result): dict(zip(columns, row)) per row, or
\* DataProcessingError for an AttributeError or TypeError.
ZipDict(cols, row) ==
    LET n == Min(Len(cols), Len(row))
    IN  [k \in {cols[j] : j \in 1..n} |->
            row[CHOOSE j \in 1..n : cols[j] = k /\ \A i \in 1..n : cols[i] = k => i <= j]]

normalize_cost_response(result) ==
    IF ~result.hasColumns \/ ~result.iterable
    THEN [exc |-> "DataProcessingError", data |-> <<>>]
    ELSE [exc |-> "none",
          data |-> [i \in 1..Len(result.rows) |-> ZipDict(result.cols, result.rows[i])]]

\* ------------------------------------------------------ daily validation
RECURSIVE IntDigits(_)
\* str(n) of an int n >= 0.
IntDigits(n) ==
    IF n < 10 THEN <<Digits[n + 1]>>
    ELSE Append(IntDigits(n \div 10), Digits[(n % 10) + 1])

\* str(usage_date_int): of an int, a str or None.
PyStr(v) ==
    CASE v.t = "str" -> v.s
      [] v.t = "int" -> IF v.n < 0 THEN <<"-">> \o IntDigits(0 - v.n) ELSE IntDigits(v.n)
      [] v.t = "none" -> <<"N", "o", "n", "e">>

InRange(c, lo, hi) == IsDigit(c) /\ DigitVal(c) >= lo /\ DigitVal(c) <= hi

\* datetime.strptime(s, "%Y%m%d") matches the pattern
\*   (\d\d\d\d)(1[0-2]|0[1-9]|[1-9])(3[0-1]|[1-2]\d|0[1-9]|[1-9]| [1-9])
\* at the start of s, preferring the alternatives from left to right.
\* MonthLens: the lengths of the month alternatives that match at s, in
\* that order.
MonthLens(s) ==
    (IF Len(s) >= 2 /\ s[1] = "1" /\ InRange(s[2], 0, 2) THEN <<2>> ELSE <<>>)
    \o (IF Len(s) >= 2 /\ s[1] = "0" /\ InRange(s[2], 1, 9) THEN <<2>> ELSE <<>>)
    \o (IF Len(s) >= 1 /\ InRange(s[1], 1, 9) THEN <<1>> ELSE <<>>)

\* The length of the first day alternative that matches at s, 0 for none.
DayLen(s) ==
    IF Len(s) >= 2 /\ s[1] = "3" /\ InRange(s[2], 0, 1) THEN 2
    ELSE IF Len(s) >= 2 /\ InRange(s[1], 1, 2) /\ IsDigit(s[2]) THEN 2
    ELSE IF Len(s) >= 2 /\ s[1] = "0" /\ InRange(s[2], 1, 9) THEN 2
    ELSE IF Len(s) >= 1 /\ InRange(s[1], 1, 9) THEN 1
    ELSE IF Len(s) >= 2 /\ s[1] = " " /\ InRange(s[2], 1, 9) THEN 2
    ELSE 0

\* The month alternative the match settles on: the first one after which a
\* day alternative matches; 0 when the pattern does not match.
FirstMonth(s, lens) ==
    IF lens = <<>> THEN 0
    ELSE IF DayLen(SubSeq(s, Head(lens) + 1, Len(s))) > 0 THEN Head(lens)
    ELSE IF Len(lens) > 1 /\ DayLen(SubSeq(s, lens[2] + 1, Len(s))) > 0 THEN lens[2]
    ELSE 0

DaysIn(y, m) ==
    CASE m \in {4, 6, 9, 11} -> 30
      [] m = 2 -> IF y % 4 = 0 /\ (y % 100 # 0 \/ y % 400 = 0) THEN 29 ELSE 28
      [] OTHER -> 31

NoDate == [exc |-> "ValueError", date |-> [y |-> 0, m |-> 0, d |-> 0]]

\* datetime(y, m, d): ValueError for a day the month does not have.
Calendar(y, m, d) ==
    IF y < 1 \/ d > DaysIn(y, m) THEN NoDate
    ELSE [exc |-> "none", date |-> [y |-> y, m |-> m, d |-> d]]

\* The groups of a match of month length ml and day length dl: text left
\* over after the match is a ValueError (unconverted data remains).
Groups(s, ml, dl) ==
    IF 4 + ml + dl # Len(s) THEN NoDate
    ELSE Calendar(DigitsValue(SubSeq(s, 1, 4)),
                  DigitsValue(SubSeq(s, 5, 4 + ml)),
                  DigitsValue(LStrip(SubSeq(s, 5 + ml, Len(s)))))

Matched(s, ml) ==
    IF ml = 0 THEN NoDate ELSE Groups(s, ml, DayLen(SubSeq(s, 5 + ml, Len(s))))

strptime(s) ==
    IF Len(s) < 4 \/ ~AllDigits(SubSeq(s, 1, 4)) THEN NoDate
    ELSE Matched(s, FirstMonth(SubSeq(s, 5, Len(s)), MonthLens(SubSeq(s, 5, Len(s)))))

\* The keyword arguments of the call DailyCostRecord(...) in
\* preprocess_daily_costs.
DailyGiven ==
    {"usage_date", "cost", "currency", "billing_period_start", "billing_period_end"}

\* DailyCostRecord(**given): the exception of the construction.  The fields
\* without a default are required; a missing one is a ValidationError, which
\* pydantic raises after the cost validator has run.
DailyConstruction(given, cost, ccy) ==
    CASE cost.exc # "none" -> cost.exc
      [] ~({"service_name", "usage_date", "cost", "billing_period_start",
            "billing_period_end"} \subseteq given)
         \/ ccy.t # "str" \/ cost.cents < 0 -> "ValidationError"
      [] OTHER -> "none"

DailyFields(d, cost, ccy) ==
    [exc |-> IF d.exc # "none" THEN d.exc ELSE DailyConstruction(DailyGiven, cost, ccy),
     rec |-> [usage_date |-> d.date,
              cost |-> cost.cents,
              currency |-> validate_currency_code(ccy.s)]]

\* The record of one mapping, as the loop of preprocess_daily_costs builds
\* it: the date is parsed before the record is constructed.
DailyCostRecord(raw) ==
    DailyFields(strptime(PyStr(Get(raw, "UsageDate", Whole(0)))),
                validate_cost_amount(Get(raw, "Cost", Num(0))),
                Get(raw, "Currency", Str(INR)))

RECURSIVE DailyValidated(_)
\* processed_records of the loop over raw_costs.
DailyValidated(raws) ==
    IF raws = <<>> THEN [exc |-> "none", recs |-> <<>>]
    ELSE Turn(DailyCostRecord(Head(raws)), DailyValidated(Tail(raws)))

\* preprocess_daily_costs(raw_costs, start, end): its records, or the
\* exception that leaves it.
preprocess_daily_costs(raws) == NoneValid(raws, DailyValidated(raws))

\* ------------------------------------------------------- store primitives
Ids(S) == {x.id : x \in S}

EmptyTx == [P |-> {}, S |-> {}, F |-> {}, D |-> {}]

\* The committed rows of a table: P billing_period, S azure_service,
\* F service_cost, D daily_cost.
Tab(T) ==
    CASE T = "P" -> periods [] T = "S" -> services [] T = "F" -> facts [] OTHER -> dfacts

\* What a statement of session r reads: committed rows, with the rows its own
\* transaction wrote in place of their committed versions.
View(r, T) == {x \in Tab(T) : x.id \notin Ids(tx[r][T])} \cup tx[r][T]

\* The row versions session t's open transaction holds unsettled: the ones it
\* wrote and the committed ones they replace.
Held(t, T) == tx[t][T] \cup {x \in Tab(T) : x.id \in Ids(tx[t][T])}

\* The rows session r must treat as settled: its own versions, and committed
\* rows no other open transaction has rewritten.
Settled(r, T) ==
    tx[r][T] \cup {x \in Tab(T) : x.id \notin Ids(tx[r][T])
                                  /\ \A t \in Runs \ {r} : x.id \notin Ids(tx[t][T])}

\* billing_period without the index on is_current.
UqCurrentNoIndex(x, y) == FALSE

\* Index("idx_billing_period_current", "is_current", unique=True): no two
\* rows of billing_period share a value of is_current.
UqCurrent(x, y) == x.cur = y.cur

\* UniqueConstraint("start_date", "end_date", name="uq_billing_period_dates")
UqWindow(x, y) == x.win = y.win

\* azure_service without the unique name.
UqServiceNameNoIndex(x, y) == FALSE

\* Column(String(255), unique=True) of azure_service.name
UqServiceName(x, y) == x.name = y.name

\* UniqueConstraint("service_id", "billing_period_id")
UqServiceCost(x, y) == x.sid = y.sid /\ x.pid = y.pid

\* UniqueConstraint("usage_date", "billing_period_id")
UqDailyCost(x, y) == x.day = y.day /\ x.pid = y.pid

\* Two distinct rows of table T that a unique index forbids together.
Clash(T, x, y) ==
    /\ x.id # y.id
    /\ CASE T = "P" -> UqCurrent(x, y) \/ UqWindow(x, y)
         [] T = "S" -> UqServiceName(x, y)
         [] T = "F" -> UqServiceCost(x, y)
         [] OTHER -> UqDailyCost(x, y)

\* CheckConstraint("cost_amount >= 0"), CheckConstraint("LENGTH(currency_code) = 3")
\* and nullable=False of billing_period_id, on the fact tables.
ChecksHold(T, x) ==
    T \in {"F", "D"} => x.amt >= 0 /\ Len(x.ccy) = 3 /\ x.pid # 0

\* A write statement of session r: the table, the rows whose lock it needs
\* and the row versions it writes.
Violation(r, w) ==
    \/ \E n \in w.new : ~ChecksHold(w.T, n)
    \/ \E n \in w.new :
          \E y \in {z \in Settled(r, w.T) : z.id \notin Ids(w.new)} \cup w.new :
              Clash(w.T, n, y)

LockHolders(r, w) == {t \in Runs \ {r} : Ids(tx[t][w.T]) \cap w.locks # {}}

KeyHolders(r, w) ==
    {t \in Runs \ {r} : \E n \in w.new : \E y \in Held(t, w.T) : Clash(w.T, n, y)}

\* The sessions the statement waits for: the holders of its rows' locks, then,
\* unless a settled row already refuses it, the holders of an unsettled row
\* with one of its keys.
WaitsFor(r, w) ==
    IF LockHolders(r, w) # {} THEN LockHolders(r, w)
    ELSE IF Violation(r, w) THEN {}
    ELSE KeyHolders(r, w)

Written(r, w) == [tx EXCEPT ![r][w.T] = {x \in @ : x.id \notin Ids(w.new)} \cup w.new]

Rollback(r) == [tx EXCEPT ![r] = EmptyTx]

\* COMMIT: the transaction's row versions become the committed ones.
CommitAll(r) ==
    /\ periods' = View(r, "P")
    /\ services' = View(r, "S")
    /\ facts' = View(r, "F")
    /\ dfacts' = View(r, "D")
    /\ tx' = Rollback(r)

\* --------------------------------------------------------------- callers
IdleRun ==
    [pc |-> "idle", caller |-> "none", kind |-> "service",
     raw |-> [hasColumns |-> FALSE, iterable |-> FALSE, cols |-> <<>>, rows |-> <<>>],
     norm |-> <<>>, win |-> 0, recsBound |-> FALSE, recs |-> <<>>,
     existing |-> {}, targets |-> {}, bp |-> 0,
     i |-> 1, sid |-> 0, loaded |-> {}, pending |-> <<>>, saved |-> -1,
     resume |-> "s_commit",
     outcome |-> "none", cause |-> "none", err |-> "none", at |-> "none", job |-> "none"]

\* wait_for_db before its call.  log holds the outcome of each connection
\* attempt made and slept each interval passed to asyncio.sleep, in order.
NotCalled ==
    [pc |-> "idle", max_retries |-> 0, retry_interval |-> 0,
     backoff_multiplier |-> 0, attempt |-> 0, current_interval |-> 0,
     log |-> <<>>, slept |-> <<>>, result |-> "none"]

\* scheduler: AsyncIOScheduler | None = None.  held is 0 for None, else the
\* instance the handle refers to; made counts the instances constructed; op
\* and did tell the last call and what it did.
NoScheduler == [held |-> 0, made |-> 0, op |-> "none", did |-> "none"]

Init ==
    /\ db = NotCalled /\ scheduler = NoScheduler
    /\ month = 1
    /\ periods = {} /\ services = {} /\ facts = {} /\ dfacts = {}
    /\ nextId = [P |-> 1, S |-> 1, F |-> 1, D |-> 1]
    /\ tx = [r \in Runs |-> EmptyTx]
    /\ run = [r \in Runs |-> IdleRun]
    /\ calls = 0

\* The exception of a failed database call as its caller sees it: both
\* handlers (except SQLAlchemyError) raise Exception(...).  A direct caller
\* gets it; fetch_process_save catches it (except Exception), logs, and goes
\* on to its return statement.
Raised(r, stage, e) ==
    [run[r] EXCEPT !.pc = IF run[r].caller = "pipeline" THEN "ret" ELSE "done",
                   !.outcome = IF run[r].caller = "pipeline" THEN @ ELSE "Exception",
                   !.cause = stage,
                   !.err = e,
                   !.at = run[r].pc]

Stage(r) == IF run[r].pc \in {"g_select", "g_clear", "g_clear2", "g_flush", "g_commit"}
            THEN "period" ELSE "save"

\* A handler that commits what the session wrote instead of rolling it back.
HandleDbErrorCommits(r, e) ==
    /\ CommitAll(r)
    /\ run' = [run EXCEPT ![r] = Raised(r, Stage(r), e)]

\* except SQLAlchemyError as e: await session.rollback(); raise Exception(...)
HandleDbError(r, e) ==
    /\ tx' = Rollback(r)
    /\ run' = [run EXCEPT ![r] = Raised(r, Stage(r), e)]
    /\ UNCHANGED <<periods, services, facts, dfacts>>

\* A write statement runs once it waits for no session: it raises
\* IntegrityError if a constraint refuses it, else its rows are written and
\* the caller goes on as `next`.
Execute(r, w, next) ==
    /\ WaitsFor(r, w) = {}
    /\ IF Violation(r, w)
       THEN HandleDbError(r, "IntegrityError")
       ELSE /\ tx' = Written(r, w)
            /\ run' = [run EXCEPT ![r] = next]
            /\ UNCHANGED <<periods, services, facts, dfacts>>

\* session.flush(), alone or as the first part of session.commit(): the
\* statements of what the session holds changed or new, and then `resume`.
FlushPc(loaded, pending, resume) ==
    IF pending # <<>> \/ \E o \in loaded : o.amt # o.amt0 \/ o.ccy # o.ccy0
    THEN "s_flush" ELSE resume

\* for record in records: the next statement of the loop, or the commit.
LoopPc(kind, recs, i, loaded, pending) ==
    IF i <= Len(recs)
    THEN IF kind = "service" THEN "s_svc" ELSE "s_fact"
    ELSE FlushPc(loaded, pending, "s_commit")

\* ------------------------------------------- get_or_create_billing_period
\* A direct call get_or_create_billing_period(session, start, end) on a
\* fresh session, for an arbitrary window.
CallPeriod(r, w) ==
    /\ run[r].pc \in {"idle", "done"}
    /\ calls < MaxCalls
    /\ run' = [run EXCEPT ![r] = [IdleRun EXCEPT !.pc = "g_select", !.caller = "period", !.win = w]]
    /\ calls' = calls + 1
    /\ UNCHANGED <<month, periods, services, facts, dfacts, nextId, tx, db, scheduler>>

\* The branch on existing_period without the test of is_current.
AfterSelectNoCheck(e) == IF e # {} THEN "g_return" ELSE "g_clear"

\* if existing_period: if not existing_period.is_current: ... else: ...
AfterSelect(e) == IF e # {} /\ \A p \in e : p.cur THEN "g_return" ELSE "g_clear"

\* select(BillingPeriod).where(start_date == ..., end_date == ...); first()
GSelect(r) ==
    /\ run[r].pc = "g_select"
    /\ LET e == {p \in View(r, "P") : p.win = run[r].win}
       IN  run' = [run EXCEPT ![r].existing = e, ![r].pc = AfterSelect(e)]
    /\ UNCHANGED <<month, periods, services, facts, dfacts, nextId, tx, calls, db, scheduler>>

\* update(BillingPeriod).where(is_current IS TRUE).values(is_current=False):
\* the statement starts and takes its snapshot of the rows to update.
GClearStart(r) ==
    /\ run[r].pc = "g_clear"
    /\ run' = [run EXCEPT ![r].targets = {p.id : p \in {q \in View(r, "P") : q.cur}},
                          ![r].pc = "g_clear2"]
    /\ UNCHANGED <<month, periods, services, facts, dfacts, nextId, tx, calls, db, scheduler>>

\* The pending UPDATE: each target re-read in its newest version and
\* rewritten only if it still satisfies the WHERE clause.
ClearWrite(r) ==
    [T |-> "P", locks |-> run[r].targets,
     new |-> {[p EXCEPT !.cur = FALSE] :
                p \in {q \in View(r, "P") : q.id \in run[r].targets /\ q.cur}}]

GClearApply(r) ==
    /\ run[r].pc = "g_clear2"
    /\ Execute(r, ClearWrite(r), [run[r] EXCEPT !.pc = "g_flush"])
    /\ UNCHANGED <<month, nextId, calls, db, scheduler>>

\* The row session.commit() flushes: the found period with is_current = True,
\* or BillingPeriod(start_date, end_date, is_current=True) with a fresh id.
FlushRow(r) ==
    IF run[r].existing # {}
    THEN LET e == CHOOSE p \in run[r].existing : TRUE
         IN  [(CHOOSE p \in View(r, "P") : p.id = e.id) EXCEPT !.cur = TRUE]
    ELSE [id |-> nextId.P, win |-> run[r].win, cur |-> TRUE]

FlushWrite(r) ==
    [T |-> "P", locks |-> IF run[r].existing # {} THEN {FlushRow(r).id} ELSE {},
     new |-> {FlushRow(r)}]

GFlush(r) ==
    /\ run[r].pc = "g_flush"
    /\ Execute(r, FlushWrite(r), [run[r] EXCEPT !.pc = "g_commit", !.existing = {FlushRow(r)}])
    /\ nextId' = IF run[r].existing = {} THEN [nextId EXCEPT !.P = @ + 1] ELSE nextId
    /\ UNCHANGED <<month, calls, db, scheduler>>

\* A period resolution that returns without committing: what it wrote
\* stays in the transaction the save goes on with.
GCommitDeferred(r) ==
    /\ run[r].pc = "g_commit"
    /\ run' = [run EXCEPT ![r].pc = "g_return"]
    /\ UNCHANGED <<month, periods, services, facts, dfacts, nextId, tx, calls, db, scheduler>>

\* await session.commit() (and the refresh of the row committed)
GCommit(r) ==
    /\ run[r].pc = "g_commit"
    /\ CommitAll(r)
    /\ run' = [run EXCEPT ![r].pc = "g_return"]
    /\ UNCHANGED <<month, nextId, calls, db, scheduler>>

\* return existing_period / return new_period
GReturn(r) ==
    /\ run[r].pc = "g_return"
    /\ run' = [run EXCEPT ![r].bp = (CHOOSE p \in run[r].existing : TRUE).id,
                          ![r].pc = IF run[r].caller = "pipeline"
                                    THEN LoopPc(run[r].kind, run[r].recs, 1, {}, <<>>)
                                    ELSE "done",
                          ![r].outcome = IF run[r].caller = "pipeline" THEN @ ELSE "returned"]
    /\ UNCHANGED <<month, periods, services, facts, dfacts, nextId, tx, calls, db, scheduler>>

PeriodStep(r) ==
    \/ GSelect(r)
    \/ GClearStart(r)
    \/ GClearApply(r)
    \/ GFlush(r)
    \/ GCommit(r)
    \/ GReturn(r)

\* ------------------------------------- save_service_costs / save_daily_costs
FactTable(r) == IF run[r].kind = "service" THEN "F" ELSE "D"

\* get_or_create_azure_service: select(AzureService).where(name == ...); first()
SServiceSelect(r) ==
    /\ run[r].pc = "s_svc"
    /\ LET found == {s \in View(r, "S") : s.name = run[r].recs[run[r].i].service_name}
       IN  run' = [run EXCEPT
                ![r].sid = IF found # {} THEN (CHOOSE s \in found : TRUE).id ELSE 0,
                ![r].pc = IF found # {} THEN "s_fact" ELSE "s_svc_ins"]
    /\ UNCHANGED <<month, periods, services, facts, dfacts, nextId, tx, calls, db, scheduler>>

\* An insert that takes over a stored service row when there is one.
ServiceWriteOver(r) ==
    [T |-> "S", locks |-> {},
     new |-> {[id |-> IF services # {} THEN (CHOOSE s \in services : TRUE).id ELSE nextId.S,
               name |-> run[r].recs[run[r].i].service_name]}]

ServiceWrite(r) ==
    [T |-> "S", locks |-> {},
     new |-> {[id |-> nextId.S, name |-> run[r].recs[run[r].i].service_name]}]

\* service = AzureService(name=...); session.add(service); await session.flush()
\* The flush inserts the service and then writes the facts the session holds
\* changed or new from the records before.
SServiceInsert(r) ==
    /\ run[r].pc = "s_svc_ins"
    /\ Execute(r, ServiceWrite(r),
               [run[r] EXCEPT !.sid = nextId.S, !.resume = "s_fact",
                              !.pc = FlushPc(run[r].loaded, run[r].pending, "s_fact")])
    /\ nextId' = [nextId EXCEPT !.S = @ + 1]
    /\ UNCHANGED <<month, calls, db, scheduler>>

\* The natural key of the fact of record rec: (service_id, billing_period_id)
\* or (usage_date, billing_period_id).
SameFact(r, x, rec) ==
    /\ x.pid = run[r].bp
    /\ IF run[r].kind = "service" THEN x.sid = run[r].sid ELSE x.day = rec.usage_date

\* A lookup that never finds the stored fact.
LookupNone(r, rec) == {}

\* select(ServiceCost).where(service_id ==, billing_period_id ==); first().
\* The session does not autoflush: the query reads the store, not the
\* records added to the session and not yet flushed.
Lookup(r, rec) == {x \in View(r, FactTable(r)) : SameFact(r, x, rec)}

\* An object of the session's identity map: the row as loaded and as assigned.
Assign(r, e, rec) ==
    IF e.id \in Ids(run[r].loaded)
    THEN {IF o.id = e.id THEN [o EXCEPT !.amt = rec.cost, !.ccy = rec.currency] ELSE o
            : o \in run[r].loaded}
    ELSE run[r].loaded \cup {[id |-> e.id, amt0 |-> e.amt, ccy0 |-> e.ccy,
                              amt |-> rec.cost, ccy |-> rec.currency]}

\* ServiceCost(...) / DailyCost(...): a new object; its fetched_at and
\* created_at are set when it is made (`made`: the call it was made in).
NewFact(r, rec) ==
    IF run[r].kind = "service"
    THEN [id |-> 0, sid |-> run[r].sid, pid |-> run[r].bp,
          amt |-> rec.cost, ccy |-> rec.currency, made |-> calls]
    ELSE [id |-> 0, day |-> rec.usage_date, pid |-> run[r].bp,
          amt |-> rec.cost, ccy |-> rec.currency, made |-> calls]

\* upsert_service_cost / upsert_daily_cost, and saved += 1.
SUpsert(r) ==
    /\ run[r].pc = "s_fact"
    /\ LET rec == run[r].recs[run[r].i]
           found == Lookup(r, rec)
           loaded == IF found # {} THEN Assign(r, CHOOSE e \in found : TRUE, rec)
                     ELSE run[r].loaded
           pending == IF found # {} THEN run[r].pending
                      ELSE Append(run[r].pending, NewFact(r, rec))
       IN  run' = [run EXCEPT ![r].loaded = loaded,
                              ![r].pending = pending,
                              ![r].i = @ + 1,
                              ![r].resume = "s_commit",
                              ![r].pc = LoopPc(run[r].kind, run[r].recs, run[r].i + 1,
                                                 loaded, pending)]
    /\ UNCHANGED <<month, periods, services, facts, dfacts, nextId, tx, calls, db, scheduler>>

Dirty(r) == {o \in run[r].loaded : o.amt # o.amt0 \/ o.ccy # o.ccy0}

\* An UPDATE that sets fetched_at and created_at anew as well.
UpdatedRemade(row, o) == [row EXCEPT !.amt = o.amt, !.ccy = o.ccy, !.made = 0]

\* existing.cost_amount = ...; existing.currency_code = ...: the UPDATE of
\* the flush sets the columns that changed and no other.
Updated(row, o) ==
    [row EXCEPT !.amt = IF o.amt # o.amt0 THEN o.amt ELSE @,
                !.ccy = IF o.ccy # o.ccy0 THEN o.ccy ELSE @]

\* The next statement of the flush: the UPDATEs of the changed objects in
\* primary-key order, each setting the changed columns, then the INSERTs of
\* the new objects in the order they were added.
FactWrite(r) ==
    IF Dirty(r) # {}
    THEN LET o == CHOOSE d \in Dirty(r) : \A e \in Dirty(r) : d.id <= e.id
             row == CHOOSE x \in View(r, FactTable(r)) : x.id = o.id
         IN  [T |-> FactTable(r), locks |-> {o.id},
              new |-> {Updated(row, o)}]
    ELSE [T |-> FactTable(r), locks |-> {},
          new |-> {[Head(run[r].pending) EXCEPT !.id = nextId[FactTable(r)]]}]

AfterFactWrite(r) ==
    LET o == CHOOSE d \in Dirty(r) : \A e \in Dirty(r) : d.id <= e.id
        loaded == IF Dirty(r) # {}
                  THEN {IF x.id = o.id THEN [x EXCEPT !.amt0 = x.amt, !.ccy0 = x.ccy] ELSE x
                          : x \in run[r].loaded}
                  ELSE run[r].loaded
        pending == IF Dirty(r) # {} THEN run[r].pending ELSE Tail(run[r].pending)
    IN  [run[r] EXCEPT !.loaded = loaded, !.pending = pending,
                       !.pc = FlushPc(loaded, pending, run[r].resume)]

SFlush(r) ==
    /\ run[r].pc = "s_flush"
    /\ Execute(r, FactWrite(r), AfterFactWrite(r))
    /\ nextId' = IF Dirty(r) = {} THEN [nextId EXCEPT ![FactTable(r)] = @ + 1] ELSE nextId
    /\ UNCHANGED <<month, calls, db, scheduler>>

\* await session.commit(); return saved
SCommit(r) ==
    /\ run[r].pc = "s_commit"
    /\ CommitAll(r)
    /\ run' = [run EXCEPT ![r].saved = Len(run[r].recs),
                          ![r].pc = IF run[r].caller = "pipeline" THEN "ret" ELSE "done",
                          ![r].outcome = IF run[r].caller = "pipeline" THEN @ ELSE "returned"]
    /\ UNCHANGED <<month, nextId, calls, db, scheduler>>

SaveStep(r) ==
    \/ SServiceSelect(r)
    \/ SServiceInsert(r)
    \/ SUpsert(r)
    \/ SFlush(r)
    \/ SCommit(r)

\* ------------------------------------------------- failures of the store
\* The write statement session r is about to run, if it is at one.
PendingWrite(r) ==
    CASE run[r].pc = "g_clear2" -> ClearWrite(r)
      [] run[r].pc = "g_flush" -> FlushWrite(r)
      [] run[r].pc = "s_svc_ins" -> ServiceWrite(r)
      [] OTHER -> FactWrite(r)

Waiting(r) ==
    IF run[r].pc \in {"g_clear2", "g_flush", "s_svc_ins", "s_flush"}
    THEN WaitsFor(r, PendingWrite(r)) ELSE {}

\* Two sessions waiting for each other: the store aborts the statement of
\* one of them (a DBAPIError, caught as SQLAlchemyError).
Deadlock(r) ==
    /\ \E t \in Waiting(r) : r \in Waiting(t)
    /\ HandleDbError(r, "DeadlockDetected")
    /\ UNCHANGED <<month, nextId, calls, db, scheduler>>

\* Any statement or the commit of a save may fail (connection lost, timeout).
DbFault(r) ==
    /\ run[r].pc \in {"s_svc", "s_svc_ins", "s_fact", "s_flush", "s_commit"}
    /\ HandleDbError(r, "OperationalError")
    /\ UNCHANGED <<month, nextId, calls, db, scheduler>>

\* Leaving `async with async_session() as session` with the transaction
\* open, but committing what the session wrote.
SessionExitCommits(r) == CommitAll(r)

\* Leaving `async with async_session() as session` with the transaction
\* open: the session is closed and what it wrote is rolled back.
SessionExit(r) ==
    /\ tx' = Rollback(r)
    /\ UNCHANGED <<periods, services, facts, dfacts>>

\* The task is cancelled while a statement or the commit of a save is
\* awaited: CancelledError is no SQLAlchemyError and no Exception, so no
\* handler of the save or of fetch_process_save catches it;
\* get_session_context re-raises it and the session is left.
Cancel(r) ==
    /\ run[r].pc \in {"s_svc", "s_svc_ins", "s_fact", "s_flush", "s_commit"}
    /\ SessionExit(r)
    /\ run' = [run EXCEPT ![r].pc = "done", ![r].outcome = "CancelledError",
                          ![r].cause = "cancel", ![r].at = run[r].pc]
    /\ UNCHANGED <<month, nextId, calls, db, scheduler>>

\* ------------------------------------------------------ fetch_process_save
VM == <<"V", "M">>
Storage == <<"S", "t", "o", "r", "a", "g", "e">>
usd == <<"u", "s", "d">>

ServiceColumns == <<"ServiceName", "Cost", "Currency">>

RowVM == <<Str(VM), Num(10500), Str(usd)>>
RowStorage == <<Str(Storage), Num(0), Str(usd)>>
RowVMLater == <<Str(VM), Num(20000), Str(usd)>>
RowNegative == <<Str(VM), Num(-5000), Str(usd)>>

QueryResult(rows) ==
    [hasColumns |-> TRUE, iterable |-> TRUE, cols |-> ServiceColumns, rows |-> rows]

\* What `await fetch_func()` gives: a result of the month-to-date query
\* (grouped by ServiceName: one row per service), a response without the
\* expected attributes, AzureApiError, or, for a fetch_func that returns its
\* result instead of an awaitable (as fetch_month_to_date_cost_by_service
\* does), the TypeError of awaiting it.
Upstream ==
    {[exc |-> "none", result |-> QueryResult(rows)] :
        rows \in {<<>>, <<RowVM>>, <<RowVMLater>>, <<RowVM, RowStorage>>,
                  <<RowStorage, RowVM>>, <<RowNegative>>, <<RowVM, RowNegative>>}}
    \cup {[exc |-> "none", result |-> [QueryResult(<<>>) EXCEPT !.hasColumns = FALSE]],
          [exc |-> "AzureApiError", result |-> QueryResult(<<>>)],
          [exc |-> "TypeError", result |-> QueryResult(<<>>)]}

DailyColumns == <<"Cost", "UsageDate", "Currency">>
Day15 == <<Num(10500), Whole(20240115), Str(usd)>>
Day16 == <<Num(0), Whole(20240116), Str(usd)>>

\* The results of the last-7-days query (one row per day), and its failures.
DailyUpstream ==
    {[exc |-> "none", result |-> [QueryResult(rows) EXCEPT !.cols = DailyColumns]] :
        rows \in {<<>>, <<Day15>>, <<Day15, Day16>>}}
    \cup {[exc |-> "AzureApiError", result |-> QueryResult(<<>>)],
          [exc |-> "TypeError", result |-> QueryResult(<<>>)]}

\* What the fetch of a run gives.  The route handlers call the fetch function
\* without awaiting it; the scheduled jobs pass fetch_process_save the
\* functions fetch_month_to_date_cost_by_service and fetch_last_7_days_cost,
\* which return their result instead of an awaitable, so that the await
\* raises TypeError whenever the function has returned.
FetchResults(caller, job, kind) ==
    {o \in IF kind = "service" THEN Upstream ELSE DailyUpstream :
        CASE caller = "route" -> o.exc # "TypeError"
          [] job # "none" -> o.exc # "none"
          [] OTHER -> TRUE}

\* preprocess_func(normalized_data, billing_start, billing_end)
Preprocessed(kind, raws) ==
    IF kind = "service" THEN preprocess_service_costs(raws) ELSE preprocess_daily_costs(raws)

\* A trigger (request or timer) starts fetch_process_save.
Start(r) ==
    /\ run[r].pc = "idle"
    /\ run' = [run EXCEPT ![r] = [IdleRun EXCEPT !.pc = "fetch", !.caller = "pipeline"]]
    /\ calls' = calls + 1
    /\ UNCHANGED <<month, periods, services, facts, dfacts, nextId, tx, db, scheduler>>

\* raw_result = await fetch_func(): AzureApiError and TypeError are not caught.
Fetch(r) ==
    /\ run[r].pc = "fetch"
    /\ \E o \in FetchResults(run[r].caller, run[r].job, run[r].kind) :
          run' = [run EXCEPT ![r] =
                    IF o.exc = "none"
                    THEN [@ EXCEPT !.raw = o.result, !.pc = "normalize"]
                    ELSE [@ EXCEPT !.pc = "done", !.outcome = o.exc,
                                   !.cause = IF o.exc = "AzureApiError"
                                             THEN "upstream" ELSE "await"]]
    /\ UNCHANGED <<month, periods, services, facts, dfacts, nextId, tx, calls, db, scheduler>>

\* normalized_data = normalize_cost_response(raw_result); a
\* DataProcessingError is caught and logged, and the function goes on to its
\* second try block; a route handler answers it with status 500.
Normalize(r) ==
    /\ run[r].pc = "normalize"
    /\ \E n \in {normalize_cost_response(run[r].raw)} :
           run' = [run EXCEPT ![r] =
                    IF n.exc = "none"
                    THEN IF run[r].caller = "normalize"
                         THEN [@ EXCEPT !.norm = n.data, !.pc = "done", !.outcome = "returned"]
                         ELSE [@ EXCEPT !.norm = n.data, !.pc = "preprocess"]
                    ELSE IF run[r].caller \in {"route", "normalize"}
                    THEN [@ EXCEPT !.pc = "done", !.outcome = "DataProcessingError",
                                   !.cause = "normalize"]
                    ELSE [@ EXCEPT !.pc = "open", !.cause = "normalize"]]
    /\ UNCHANGED <<month, periods, services, facts, dfacts, nextId, tx, calls, db, scheduler>>

\* billing_start, billing_end = get_current_month_period();
\* processed_records = preprocess_func(normalized_data, ...): an exception
\* of the preprocessor is not a DataProcessingError and is not caught.
Preprocess(r) ==
    /\ run[r].pc = "preprocess"
    /\ \E p \in {Preprocessed(run[r].kind, run[r].norm)} :
           run' = [run EXCEPT ![r] =
                    IF p.exc = "none"
                    THEN [@ EXCEPT !.win = IF @ = 0 THEN month ELSE @,
                                   !.recs = p.recs, !.recsBound = TRUE,
                                   !.pc = IF run[r].caller = "pipeline" THEN "open" ELSE "done",
                                   !.outcome = IF run[r].caller = "pipeline" THEN @
                                               ELSE "returned"]
                    ELSE [@ EXCEPT !.win = IF @ = 0 THEN month ELSE @,
                                   !.pc = "done", !.outcome = p.exc,
                                   !.cause = IF p.exc = "DataValidationError"
                                             THEN "validation" ELSE "coercion"]]
    /\ UNCHANGED <<month, periods, services, facts, dfacts, nextId, tx, calls, db, scheduler>>

\* The persistence block without the call of get_or_create_billing_period.
OpenPcNoPeriod(win) == IF win = 0 THEN "ret" ELSE "s_commit"

\* async with get_session_context() as session:
\*     billing_period = await get_or_create_billing_period(session, billing_start, ...)
\* With billing_start unbound the argument raises UnboundLocalError before
\* the call; except Exception catches it.
OpenPc(win) == IF win = 0 THEN "ret" ELSE "g_select"

Open(r) ==
    /\ run[r].pc = "open"
    /\ run' = [run EXCEPT ![r].pc = OpenPc(run[r].win)]
    /\ UNCHANGED <<month, periods, services, facts, dfacts, nextId, tx, calls, db, scheduler>>

\* return processed_records, billing_period.id, saved_count: a name left
\* unbound by a caught failure raises UnboundLocalError here.
Return(r) ==
    /\ run[r].pc = "ret"
    /\ run' = [run EXCEPT ![r].pc = "done",
                          ![r].outcome = IF run[r].recsBound /\ run[r].bp # 0 /\ run[r].saved # -1
                                         THEN "returned" ELSE "UnboundLocalError"]
    /\ UNCHANGED <<month, periods, services, facts, dfacts, nextId, tx, calls, db, scheduler>>

\* date.today() passes into the next month.
Tick ==
    /\ month < NWin
    /\ month' = month + 1
    /\ UNCHANGED <<periods, services, facts, dfacts, nextId, tx, run, calls, db, scheduler>>

\* The trigger fires again once the run before has ended: slot 1 keeps the
\* run that ended, slot 2 holds the run that starts.
StartNext ==
    /\ run[2].pc = "done"
    /\ calls < MaxCalls
    /\ run' = [run EXCEPT ![1] = run[2],
                          ![2] = [IdleRun EXCEPT !.pc = "fetch", !.caller = "pipeline"]]
    /\ calls' = calls + 1
    /\ UNCHANGED <<month, periods, services, facts, dfacts, nextId, tx, db, scheduler>>

PipelineStep(r) ==
    \/ Start(r)
    \/ Fetch(r)
    \/ Normalize(r)
    \/ Preprocess(r)
    \/ Open(r)
    \/ PeriodStep(r)
    \/ SaveStep(r)
    \/ Return(r)

\* ------------------------------------------------- the triggers of a run
\* The interval trigger fires fetch_and_save_service_costs or
\* fetch_and_save_daily_costs: the job awaits fetch_process_save.
StartJob(r, kind) ==
    /\ IF run[r].pc = "done" THEN run[r].job # "running" ELSE run[r].pc = "idle"
    /\ calls < MaxCalls
    /\ run' = [run EXCEPT ![r] = [IdleRun EXCEPT !.pc = "fetch", !.caller = "pipeline",
                                                !.kind = kind, !.job = "running"]]
    /\ calls' = calls + 1
    /\ UNCHANGED <<month, periods, services, facts, dfacts, nextId, tx, db, scheduler>>

\* An except clause of the job that names AzureApiError only.
JobCatchesUpstreamOnly(exc) == exc = "AzureApiError"

\* except Exception as e: logger.error(...): every exception of the model
\* derives from Exception.
JobCatches(exc) ==
    exc \in {"AzureApiError", "TypeError", "DataValidationError", "InvalidOperation",
             "UnboundLocalError", "Exception"}

\* The job ends: it returns None after logging the count or the failure.
JobEnd(r) ==
    /\ run[r].pc = "done" /\ run[r].caller = "pipeline" /\ run[r].job = "running"
    /\ run' = [run EXCEPT ![r].job = IF run[r].outcome # "returned" /\ ~JobCatches(run[r].outcome)
                                      THEN "raised" ELSE "returned"]
    /\ UNCHANGED <<month, periods, services, facts, dfacts, nextId, tx, calls, db, scheduler>>

\* GET /cost/month-to-date or GET /cost/last-7-days: the handler fetches,
\* normalizes and preprocesses, and answers with the records.
StartRoute(r, kind) ==
    /\ IF run[r].pc = "done" THEN run[r].job # "running" ELSE run[r].pc = "idle"
    /\ calls < MaxCalls
    /\ run' = [run EXCEPT ![r] = [IdleRun EXCEPT !.pc = "fetch", !.caller = "route",
                                                !.kind = kind, !.job = "running"]]
    /\ calls' = calls + 1
    /\ UNCHANGED <<month, periods, services, facts, dfacts, nextId, tx, db, scheduler>>

\* The status of the response: the except clauses of the handler.
Status(outcome) ==
    CASE outcome = "returned" -> "200"
      [] outcome = "AzureApiError" -> "502"
      [] outcome = "DataValidationError" -> "422"
      [] OTHER -> "500"

Respond(r) ==
    /\ run[r].pc = "done" /\ run[r].caller = "route" /\ run[r].job = "running"
    /\ run' = [run EXCEPT ![r].job = Status(run[r].outcome)]
    /\ UNCHANGED <<month, periods, services, facts, dfacts, nextId, tx, calls, db, scheduler>>

\* ------------------------------------------- direct calls of the functions
RawService(name, cost, ccy) == [ServiceName |-> name, Cost |-> cost, Currency |-> ccy]

\* Normalized mappings of the service query, well-formed and not.
RawRows ==
    {RawService(Str(VM), Num(10500), Str(usd)),
     RawService(Str(Storage), Num(0), Str(usd)),
     RawService(Str(<<" ", "D", "B", " ">>), Str(<<"7">>), Str(<<"i", "n", "r">>)),
     [Cost |-> Num(12345)],
     RawService(Str(VM), Num(-5000), Str(usd)),
     RawService(Str(VM), Num(-4), Str(usd)),
     RawService(Str(VM), Num(1000), Str(<<"e", "u", "r", "o", "s">>)),
     RawService(Str(<<>>), Num(1000), Str(usd)),
     RawService(Str(<<" ", " ">>), Num(1000), Str(usd)),
     RawService(None, Num(1000), Str(usd)),
     RawService(Str(VM), None, Str(usd)),
     RawService(Str(Storage), Str(<<"a", "b", "c">>), Str(usd))}

RawDay(date, cost, ccy) == [UsageDate |-> date, Cost |-> cost, Currency |-> ccy]

\* Normalized mappings of the daily query, well-formed and not.
RawDays ==
    {RawDay(Whole(20240115), Num(10500), Str(usd)),
     RawDay(Whole(20240116), Num(0), Str(usd)),
     RawDay(Whole(2024115), Num(1000), Str(usd)),
     RawDay(Whole(20240230), Num(1000), Str(usd)),
     RawDay(Str(<<"J", "a", "n">>), Num(1000), Str(usd)),
     [Cost |-> Num(1000), Currency |-> Str(usd)],
     RawDay(Whole(20240115), Str(<<"a", "b", "c">>), Str(usd))}

Raws(kind) == IF kind = "service" THEN RawRows ELSE RawDays

SeqsUpTo(S, n) == UNION {[1..k -> S] : k \in 0..n}

\* preprocess_service_costs / preprocess_daily_costs (raw_costs, start, end)
\* called on a batch.
CallPreprocess(r, kind, raws) ==
    /\ run[r].pc \in {"idle", "done"}
    /\ run' = [run EXCEPT ![r] = [IdleRun EXCEPT !.pc = "preprocess", !.caller = "preprocess",
                                                !.kind = kind, !.norm = raws, !.win = month]]
    /\ UNCHANGED <<month, periods, services, facts, dfacts, nextId, tx, calls, db, scheduler>>

\* Query results, well-formed and not: rows of the column count, a row that
\* is shorter and one that is longer, and a result without columns.
Results ==
    {[QueryResult(rows) EXCEPT !.cols = cols] :
        cols \in {ServiceColumns, DailyColumns},
        rows \in SeqsUpTo({RowVM, RowStorage, Day15, <<Str(VM), Num(10500)>>,
                            <<Str(VM), Num(10500), Str(usd), Str(INR)>>}, MaxBatch)}
    \cup {[QueryResult(<<>>) EXCEPT !.hasColumns = FALSE]}

\* normalize_cost_response(result) called on a result.
CallNormalize(r, result) ==
    /\ run[r].pc \in {"idle", "done"}
    /\ run' = [run EXCEPT ![r] = [IdleRun EXCEPT !.pc = "normalize", !.caller = "normalize",
                                                !.raw = result]]
    /\ UNCHANGED <<month, periods, services, facts, dfacts, nextId, tx, calls, db, scheduler>>

ServiceRecords == {CostRecord(ZipDict(ServiceColumns, row)).rec :
                     row \in {RowVM, RowStorage, RowVMLater}}

DailyRecords ==
    {[usage_date |-> d[1], cost |-> d[2], currency |-> validate_currency_code(usd)] :
        d \in {<<1, 1050>>, <<2, 0>>, <<1, 2000>>}}

Records(kind) == IF kind = "service" THEN ServiceRecords ELSE DailyRecords

\* save_service_costs / save_daily_costs (session, billing_period_id, records)
\* called on a fresh session with the id of a stored period.
CallSave(r, kind, pid, recs) ==
    /\ run[r].pc = "idle"
    /\ run' = [run EXCEPT ![r] = [IdleRun EXCEPT !.pc = LoopPc(kind, recs, 1, {}, <<>>),
                                                !.caller = "save", !.kind = kind,
                                                !.bp = pid, !.recs = recs, !.recsBound = TRUE]]
    /\ calls' = calls + 1
    /\ UNCHANGED <<month, periods, services, facts, dfacts, nextId, tx, db, scheduler>>

\* A store in which one billing period has been resolved.
InitSave ==
    /\ db = NotCalled /\ scheduler = NoScheduler
    /\ month = 1
    /\ periods = {[id |-> 1, win |-> 1, cur |-> TRUE]}
    /\ services = {} /\ facts = {} /\ dfacts = {}
    /\ nextId = [P |-> 2, S |-> 1, F |-> 1, D |-> 1]
    /\ tx = [r \in Runs |-> EmptyTx]
    /\ run = [r \in Runs |-> IdleRun]
    /\ calls = 0

\* ------------------------------------------------------- specifications
\* Two runs of the pipeline, overlapping in any way.
Next == Tick \/ \E r \in Runs : PipelineStep(r) \/ Deadlock(r)
Spec == Init /\ [][Next]_vars

\* Runs of the pipeline in succession.
NextTwice == Tick \/ PipelineStep(2) \/ StartNext
SpecTwice == Init /\ [][NextTwice]_vars

\* Two runs of the pipeline in which any statement of a save may fail.
NextFault == Next \/ \E r \in Runs : DbFault(r)
SpecFault == Init /\ [][NextFault]_vars

\* Sequential callers of get_or_create_billing_period: one session at a time.
NextSeq == (\E w \in Windows : CallPeriod(1, w)) \/ PeriodStep(1)
SpecSeq == Init /\ [][NextSeq]_vars

\* Concurrent callers of get_or_create_billing_period.
NextRace == \E r \in Runs : (\E w \in Windows : CallPeriod(r, w)) \/ PeriodStep(r)
SpecRace == Init /\ [][NextRace]_vars

\* Concurrent callers of the save functions, with failures of the store.
NextSave ==
    \E r \in Runs :
        \/ \E kind \in {"service", "daily"} : \E pid \in Ids(periods) :
              \E recs \in SeqsUpTo(Records(kind), MaxBatch) : CallSave(r, kind, pid, recs)
        \/ SaveStep(r)
        \/ Deadlock(r)
        \/ DbFault(r)
SpecSave == InitSave /\ [][NextSave]_vars

\* The preprocessor applied to batches of mappings.
NextPre ==
    \/ \E kind \in {"service", "daily"} :
          \E raws \in SeqsUpTo(Raws(kind), MaxBatch) : CallPreprocess(1, kind, raws)
    \/ Preprocess(1)
SpecPre == Init /\ [][NextPre]_vars

\* Requests and scheduled jobs, overlapping in any way.
NextTrigger ==
    \E r \in Runs :
        \/ \E kind \in {"service", "daily"} : StartJob(r, kind)
        \/ \E kind \in {"service", "daily"} : StartRoute(r, kind)
        \/ Fetch(r)
        \/ Normalize(r)
        \/ Preprocess(r)
        \/ JobEnd(r)
        \/ Respond(r)
SpecTrigger == Init /\ [][NextTrigger]_vars

\* normalize_cost_response applied to query results.
NextNorm == (\E result \in Results : CallNormalize(1, result)) \/ Normalize(1)
SpecNorm == Init /\ [][NextNorm]_vars

\* Concurrent callers of the save functions that may be cancelled.
NextCancel ==
    \E r \in Runs :
        \/ \E kind \in {"service", "daily"} : \E pid \in Ids(periods) :
              \E recs \in SeqsUpTo(Records(kind), MaxBatch) : CallSave(r, kind, pid, recs)
        \/ SaveStep(r)
        \/ Deadlock(r)
        \/ Cancel(r)
SpecCancel == InitSave /\ [][NextCancel]_vars
\* ------------------------------------------------------------ wait_for_db
\* The arguments wait_for_db is called with besides max_retries, in seconds.
RetryIntervals == {1, 2}
Multipliers == {1, 2, 3}

\* for attempt in range(1, max_retries + 1): the next attempt, or past the
\* loop the final `return False`.
LoopHead(d, attempt) ==
    IF attempt <= d.max_retries
    THEN [d EXCEPT !.attempt = attempt, !.pc = "connect"]
    ELSE [d EXCEPT !.pc = "done", !.result = "False"]

\* The call: current_interval = retry_interval, then the loop.
wait_for_db ==
    /\ db.pc = "idle"
    /\ \E m \in 1..MaxRetries, ri \in RetryIntervals, bm \in Multipliers :
         db' = LoopHead([db EXCEPT !.max_retries = m, !.retry_interval = ri,
                                   !.backoff_multiplier = bm,
                                   !.current_interval = ri], 1)
    /\ UNCHANGED <<month, periods, services, facts, dfacts, nextId, tx, run, calls,
                   scheduler>>

\* async with engine.connect() ... SELECT 1: return True, or in the handler
\* raise ConnectionError at the last attempt and go on to the sleep otherwise.
Connect ==
    /\ db.pc = "connect"
    /\ \E ok \in BOOLEAN :
         db' = [db EXCEPT !.log = Append(@, ok),
                          !.pc = IF ~ok /\ db.attempt # db.max_retries
                                 THEN "sleep" ELSE "done",
                          !.result = IF ok THEN "True"
                                     ELSE IF db.attempt = db.max_retries
                                          THEN "ConnectionError" ELSE @]
    /\ UNCHANGED <<month, periods, services, facts, dfacts, nextId, tx, run, calls,
                   scheduler>>

\* An interval that stays as it is.
NoBackoff(interval, multiplier) == interval

\* current_interval *= backoff_multiplier
Backoff(interval, multiplier) == interval * multiplier

\* await asyncio.sleep(current_interval); current_interval *= ...; the loop.
Sleep ==
    /\ db.pc = "sleep"
    /\ db' = LoopHead([db EXCEPT !.slept = Append(@, db.current_interval),
                                 !.current_interval =
                                     Backoff(@, db.backoff_multiplier)],
                      db.attempt + 1)
    /\ UNCHANGED <<month, periods, services, facts, dfacts, nextId, tx, run, calls,
                   scheduler>>

\* -------------------------------------------------------------- scheduler
\* A handler that leaves the handle on the instance that did not start.
AfterFailedStartKept(instance) == instance

\* The handle after `except Exception`: scheduler = None.
AfterFailedStart(instance) == 0

\* def start_scheduler(): a held handle returns at once; otherwise
\* create_scheduler() makes an instance, the handle is bound to it and it is
\* started; any exception ends with the handle at None.
start_scheduler ==
    /\ scheduler.made < MaxCalls
    /\ \E o \in {"started", "create raises", "start raises"} :
         scheduler' =
             IF scheduler.held # 0
             THEN [scheduler EXCEPT !.op = "start", !.did = "nothing"]
             ELSE CASE o = "started" ->
                         [held |-> scheduler.made + 1, made |-> scheduler.made + 1,
                          op |-> "start", did |-> o]
                    [] o = "create raises" ->
                         [scheduler EXCEPT !.held = AfterFailedStart(scheduler.held),
                                           !.op = "start", !.did = o]
                    [] o = "start raises" ->
                         [held |-> AfterFailedStart(scheduler.made + 1),
                          made |-> scheduler.made + 1,
                          op |-> "start", did |-> o]
    /\ UNCHANGED <<month, periods, services, facts, dfacts, nextId, tx, run, calls,
                   db>>

\* def shutdown_scheduler(): no handle returns at once; otherwise
\* scheduler.shutdown(wait=True), whose exception returns with the handle as
\* it was and whose return sets the handle to None.
shutdown_scheduler ==
    /\ \E o \in {"shut down", "shutdown raises"} :
         scheduler' =
             IF scheduler.held = 0
             THEN [scheduler EXCEPT !.op = "shutdown", !.did = "nothing"]
             ELSE [scheduler EXCEPT !.held = IF o = "shut down" THEN 0 ELSE @,
                                    !.op = "shutdown", !.did = o]
    /\ UNCHANGED <<month, periods, services, facts, dfacts, nextId, tx, run, calls,
                   db>>

\* wait_for_db called once, as init_db calls it, and start_scheduler and
\* shutdown_scheduler called in any order.  A connection attempt returns or
\* raises and a sleep ends.
NextLife == wait_for_db \/ Connect \/ Sleep \/ start_scheduler \/ shutdown_scheduler
SpecLife == Init /\ [][NextLife]_vars /\ WF_vars(Connect) /\ WF_vars(Sleep)

\* ---------------------------------------------------------------- claims
Current == {p \in periods : p.cur}

\* C1: after a call of a sequence of non-overlapping calls returns, exactly
\* one billing_period row is current, and it is the row of the window just
\* requested, the one the call returned.
C1_ExactlyOneCurrentIsRequested ==
    (run[1].pc = "done" /\ run[1].outcome = "returned") =>
        /\ Cardinality(Current) = 1
        /\ \A p \in Current : p.win = run[1].win /\ p.id = run[1].bp

C1_Witness ==
    /\ run[1].pc = "done" /\ run[1].outcome = "returned"
    /\ Cardinality(periods) = 2
    /\ calls >= 3

\* C3: get_or_create_billing_period succeeds for any window in every
\* reachable store: no call ends by raising.
C3_AlwaysSucceeds ==
    run[1].pc = "done" => run[1].outcome = "returned"

\* C2: in no committed state are two periods current, and once a period is
\* committed there is a current one.
C2_CommittedExclusive ==
    /\ Cardinality(Current) <= 1
    /\ periods # {} => Current # {}

\* Two overlapping first calls: one commits its period, the other loses the
\* race on the unique index and raises.
C2_Witness ==
    /\ calls = 2
    /\ Cardinality(periods) = 1
    /\ \A r \in Runs : run[r].pc = "done"
    /\ \E r \in Runs : run[r].outcome = "Exception"
    /\ \E r \in Runs : run[r].outcome = "returned"

\* The run in slot r has ended and had obtained the billing data.
Fetched(r) == run[r].pc = "done" /\ run[r].cause \notin {"upstream", "await"}

\* Both runs worked on the same billing data and the same billing window.
SameWork ==
    /\ Fetched(1) /\ Fetched(2)
    /\ run[1].raw = run[2].raw
    /\ run[1].win = run[2].win

\* The committed service_cost rows of period pid for the service named name.
FactsOf(name, pid) ==
    {f \in facts : f.pid = pid /\ \E s \in services : s.id = f.sid /\ s.name = name}

\* Every record of recs has exactly one service row and exactly one fact row
\* in period pid, carrying its amount and currency.
OnePerKey(recs, pid) ==
    \A k \in 1..Len(recs) :
        /\ Cardinality({s \in services : s.name = recs[k].service_name}) = 1
        /\ Cardinality(FactsOf(recs[k].service_name, pid)) = 1
        /\ \A f \in FactsOf(recs[k].service_name, pid) :
              f.amt = recs[k].cost /\ f.ccy = recs[k].currency

\* No two committed rows have the same natural key.
NoDuplicates ==
    /\ \A x, y \in periods : x.win = y.win => x = y
    /\ \A x, y \in services : x.name = y.name => x = y
    /\ \A x, y \in facts : (x.sid = y.sid /\ x.pid = y.pid) => x = y

C5_Converges ==
    (SameWork /\ run[1].recsBound /\ run[2].recsBound) =>
        /\ {[win |-> p.win, cur |-> p.cur] : p \in periods}
              = {[win |-> run[1].win, cur |-> TRUE]}
        /\ Cardinality(periods) = 1
        /\ Cardinality(services) = Len(run[1].recs)
        /\ Cardinality(facts) = Len(run[1].recs)
        /\ \A p \in periods : OnePerKey(run[1].recs, p.id)

\* Two runs that raced in the save: one of them lost on a unique index.
C5_Witness ==
    /\ SameWork
    /\ Len(run[1].recs) = 2
    /\ \E r \in Runs : run[r].outcome = "returned"
    /\ \E r \in Runs : run[r].err = "IntegrityError" /\ run[r].at \in {"s_svc_ins", "s_flush"}

\* C6: a caller whose insert of a service hit the duplicate key of a
\* concurrent caller does not fail: it goes on with the row of the other.
C6_DuplicateServiceIsReread ==
    \A r \in Runs :
        (run[r].at = "s_svc_ins" /\ run[r].err = "IntegrityError") =>
            run[r].outcome # "Exception"

SavePcs == {"s_svc", "s_svc_ins", "s_fact", "s_flush", "s_commit"}

\* C7: a step in which a save ends by raising leaves every committed table
\* as it was, with the session's transaction rolled back and no count
\* returned; and the committed tables change only in the commit of a save,
\* which stores the rows of its whole batch and returns the count.
C7_BatchAtomic ==
    [][\A r \in Runs :
          /\ (run[r].outcome # "Exception" /\ run'[r].outcome = "Exception") =>
                /\ UNCHANGED <<periods, services, facts, dfacts>>
                /\ tx'[r] = EmptyTx
                /\ run'[r].pc = "done" /\ run'[r].saved = -1
          /\ (run[r].pc \in SavePcs /\ run'[r] # run[r]
                /\ <<periods, services, facts, dfacts>>' # <<periods, services, facts, dfacts>>) =>
                /\ run[r].pc = "s_commit" /\ run'[r].outcome = "returned"
                /\ run'[r].saved = Len(run[r].recs)
                /\ services' = View(r, "S") /\ facts' = View(r, "F") /\ dfacts' = View(r, "D")
                /\ run[r].pending = <<>> /\ Dirty(r) = {}
      ]_vars

\* A save that had written a service and a fact and then failed at its
\* commit: none of the rows is stored.
C7_Witness ==
    /\ \E r \in Runs : /\ run[r].pc = "done" /\ run[r].outcome = "Exception"
                       /\ run[r].at = "s_commit" /\ run[r].sid # 0
    /\ services = {} /\ facts = {}
    /\ nextId.S > 1 /\ nextId.F > 1

\* C8: the exception that ends a run of fetch_process_save is that of the
\* stage that failed: AzureApiError for the fetch, DataProcessingError for
\* normalization, DataValidationError for an all-invalid batch, the
\* persistence error for period resolution and save.
C8_FailureIdentifiesStage ==
    \A r \in Runs :
        run[r].pc = "done" =>
            CASE run[r].cause = "upstream" -> run[r].outcome = "AzureApiError"
              [] run[r].cause = "normalize" -> run[r].outcome = "DataProcessingError"
              [] run[r].cause = "validation" -> run[r].outcome = "DataValidationError"
              [] run[r].cause \in {"period", "save"} -> run[r].outcome = "Exception"
              [] OTHER -> TRUE

\* C9: once fetching, normalization or preprocessing has failed, the run is
\* over: the failure has left fetch_process_save, which does not go on to
\* its persistence block.
C9_FailsBeforePersistence ==
    \A r \in Runs :
        run[r].cause \in {"upstream", "await", "normalize", "validation", "coercion"} =>
            run[r].pc = "done" /\ run[r].bp = 0 /\ tx[r] = EmptyTx

Valid(raw) == CostRecord(raw).exc = "none"

\* C10: for a batch of which some but not all mappings fail validation,
\* preprocess_service_costs returns the records of the valid mappings, in
\* input order.
C10_PartialBatch ==
    (run[1].pc = "done" /\ run[1].caller = "preprocess" /\ run[1].kind = "service"
        /\ SelectSeq(run[1].norm, Valid) # <<>>
        /\ Len(SelectSeq(run[1].norm, Valid)) < Len(run[1].norm)) =>
        /\ run[1].outcome = "returned"
        /\ run[1].recs = [k \in 1..Len(SelectSeq(run[1].norm, Valid)) |->
                            CostRecord(SelectSeq(run[1].norm, Valid)[k]).rec]

\* The mappings of a batch that the record construction of its preprocessor
\* accepts.
Survivors(kind, raws) ==
    IF kind = "service" THEN SelectSeq(raws, Valid)
    ELSE SelectSeq(raws, LAMBDA raw : DailyCostRecord(raw).exc = "none")

\* C11: a preprocessor raises DataValidationError exactly when its batch is
\* not empty and none of its mappings survives validation; for an empty
\* batch it returns the empty sequence.
C11_RaisesExactlyWhenNoneSurvives ==
    (run[1].pc = "done" /\ run[1].caller = "preprocess") =>
        /\ run[1].outcome = "DataValidationError"
              <=> (run[1].norm # <<>> /\ Survivors(run[1].kind, run[1].norm) = <<>>)
        /\ run[1].norm = <<>> => (run[1].outcome = "returned" /\ run[1].recs = <<>>)

\* The calendar date an integer YYYYMMDD encodes.
EncodedDate(n) == [y |-> n \div 10000, m |-> (n \div 100) % 100, d |-> n % 100]

\* A daily mapping as the daily query delivers it: a UsageDate that is an
\* 8-digit integer encoding a calendar date, and a non-negative Cost.
WellFormedDay(raw) ==
    /\ {"Cost", "UsageDate", "Currency"} \subseteq DOMAIN raw
    /\ raw.UsageDate.t = "int"
    /\ raw.UsageDate.n >= 10000000 /\ raw.UsageDate.n < 100000000
    /\ EncodedDate(raw.UsageDate.n).m \in 1..12
    /\ EncodedDate(raw.UsageDate.n).d
          \in 1..DaysIn(EncodedDate(raw.UsageDate.n).y, EncodedDate(raw.UsageDate.n).m)
    /\ raw.Cost.t = "num" /\ raw.Cost.n >= 0

\* C12: for a non-empty batch of well-formed daily mappings,
\* preprocess_daily_costs returns one record per mapping, in order, whose
\* usage_date is the calendar date the UsageDate encodes.
C12_DailyRecordPerMapping ==
    (run[1].pc = "done" /\ run[1].caller = "preprocess" /\ run[1].kind = "daily"
        /\ run[1].norm # <<>>
        /\ \A k \in 1..Len(run[1].norm) : WellFormedDay(run[1].norm[k])) =>
        /\ run[1].outcome = "returned"
        /\ Len(run[1].recs) = Len(run[1].norm)
        /\ \A k \in 1..Len(run[1].norm) :
              run[1].recs[k].usage_date = EncodedDate(run[1].norm[k].UsageDate.n)

\* A UsageDate that is absent, not numeric or not exactly 8 digits long.
BadDate(raw) ==
    IF "UsageDate" \in DOMAIN raw
    THEN Len(PyStr(raw.UsageDate)) # 8 \/ ~AllDigits(PyStr(raw.UsageDate))
    ELSE TRUE

\* C13: in a batch of daily mappings that are well-formed except for some
\* with a bad UsageDate, preprocess_daily_costs rejects the mappings with
\* the bad UsageDate only: it returns the records of the well-formed
\* mappings, and raises DataValidationError only when there is none.
C13_BadDateRejectedAlone ==
    (run[1].pc = "done" /\ run[1].caller = "preprocess" /\ run[1].kind = "daily"
        /\ (\E j \in 1..Len(run[1].norm) : BadDate(run[1].norm[j]))
        /\ (\A k \in 1..Len(run[1].norm) :
              BadDate(run[1].norm[k]) \/ WellFormedDay(run[1].norm[k]))) =>
        IF \E k \in 1..Len(run[1].norm) : WellFormedDay(run[1].norm[k])
        THEN /\ run[1].outcome = "returned"
             /\ Len(run[1].recs) = Len(SelectSeq(run[1].norm, WellFormedDay))
             /\ \A k \in 1..Len(run[1].recs) :
                   run[1].recs[k].usage_date
                       = EncodedDate(SelectSeq(run[1].norm, WellFormedDay)[k].UsageDate.n)
        ELSE run[1].outcome = "DataValidationError"

\* Thousandths rounded to cents, a half rounded away from zero.
RoundHalfUp(m) == IF m < 0 THEN 0 - ((5 - m) \div 10) ELSE (m + 5) \div 10

\* The Cost of a mapping in thousandths: of a number, or of the text of one.
Milli(v) == IF v.t = "str" THEN ParseDecimal(v.s).milli ELSE v.n

\* C14: the cost of every record preprocess_service_costs returns is the
\* Cost of its mapping rounded to 2 fractional digits, a half rounded up:
\* 12.345 becomes 12.35, 12.344 becomes 12.34 and "7" becomes 7.00.
C14_RoundsHalfUp ==
    (run[1].pc = "done" /\ run[1].caller = "preprocess" /\ run[1].kind = "service"
        /\ run[1].outcome = "returned" /\ Len(run[1].recs) = Len(run[1].norm)) =>
        \A k \in 1..Len(run[1].norm) :
            run[1].recs[k].cost = RoundHalfUp(Milli(Get(run[1].norm[k], "Cost", Num(0))))

\* The mappings of a batch whose Cost is not a number below zero.
NotNegative(raw) == Get(raw, "Cost", Num(0)).t # "num" \/ Get(raw, "Cost", Num(0)).n >= 0

\* C15: no record that preprocess_service_costs returns comes from a
\* mapping whose Cost is below zero, however small its magnitude: the
\* records returned are at most as many as the mappings that are not negative.
C15_NegativeRejected ==
    (run[1].pc = "done" /\ run[1].caller = "preprocess" /\ run[1].kind = "service"
        /\ run[1].outcome = "returned") =>
        Len(run[1].recs) <= Len(SelectSeq(run[1].norm, NotNegative))

\* A Cost that is no decimal: None, or text that is no number.
Uncoercible(raw) ==
    CASE Get(raw, "Cost", Num(0)).t = "none" -> TRUE
      [] Get(raw, "Cost", Num(0)).t = "str" -> ~ParseDecimal(Get(raw, "Cost", Num(0)).s).ok
      [] OTHER -> FALSE

\* C16: a mapping whose Cost is no decimal is skipped by
\* preprocess_service_costs: the call returns the records of the valid
\* mappings of the batch, or raises DataValidationError when there is none,
\* and no other exception leaves it.
C16_UncoercibleSkipped ==
    (run[1].pc = "done" /\ run[1].caller = "preprocess" /\ run[1].kind = "service"
        /\ \E k \in 1..Len(run[1].norm) : Uncoercible(run[1].norm[k])) =>
        IF SelectSeq(run[1].norm, Valid) = <<>>
        THEN run[1].outcome = "DataValidationError"
        ELSE /\ run[1].outcome = "returned"
             /\ Len(run[1].recs) = Len(SelectSeq(run[1].norm, Valid))

USD == <<"U", "S", "D">>

\* The committed service_cost rows as (service name, amount, currency).
FactView ==
    {<<x[1].name, x[2].amt, x[2].ccy>> :
        x \in {y \in services \X facts : y[1].id = y[2].sid}}

\* C17: the first run of the service pipeline, on an empty store and the
\* 2-row result (VM, 10.5, usd), (Storage, 0, usd), returns 2 records and
\* saved_count 2 and leaves one billing period, current and of the run's
\* window, the service rows VM and Storage, and two service-cost facts:
\* 10.50 USD for VM and 0.00 USD for Storage.
C17_TwoRowRun ==
    (calls = 1 /\ run[2].pc = "done" /\ run[2].raw = QueryResult(<<RowVM, RowStorage>>)) =>
        /\ run[2].outcome = "returned"
        /\ Len(run[2].recs) = 2 /\ run[2].saved = 2
        /\ periods = {[id |-> run[2].bp, win |-> run[2].win, cur |-> TRUE]}
        /\ Cardinality(services) = 2
        /\ {s.name : s \in services} = {VM, Storage}
        /\ Cardinality(facts) = 2
        /\ \A f \in facts : f.pid = run[2].bp
        /\ FactView = {<<VM, 1050, USD>>, <<Storage, 0, USD>>}

C17_Witness ==
    /\ calls = 1 /\ run[2].pc = "done" /\ run[2].outcome = "returned"
    /\ run[2].raw = QueryResult(<<RowVM, RowStorage>>)
    /\ run[2].saved = 2 /\ Cardinality(facts) = 2

\* C18: a run of fetch_process_save is in its save only after
\* get_or_create_billing_period has returned the id of a stored period, and
\* every fact it queues, writes or commits carries the id of a stored
\* period, never a null one.
C18_PeriodBeforeFacts ==
    \A r \in Runs :
        /\ (run[r].caller = "pipeline" /\ run[r].pc \in SavePcs) =>
              (run[r].bp # 0 /\ run[r].bp \in Ids(periods))
        /\ \A k \in 1..Len(run[r].pending) : run[r].pending[k].pid \in Ids(periods)
        /\ \A f \in facts \cup tx[r].F : f.pid # 0 /\ f.pid \in Ids(periods)

C18_Witness ==
    \E r \in Runs :
        /\ run[r].caller = "pipeline" /\ run[r].pc \in SavePcs
        /\ tx[r].F # {}
        /\ \A f \in tx[r].F : f.pid = run[r].bp /\ f.pid \in Ids(periods)

\* A run started by a request or by the timer has ended.
Ended(r) == run[r].pc = "done" /\ run[r].job \notin {"none", "running"}

\* C19: a run started by a request and a run started by the timer do the
\* same work: whenever its fetch function has returned a result that
\* normalization and validation accept, the run has resolved the billing
\* period and stored the validated records under it.
C19_SameUnitOfWork ==
    \A r \in Runs :
        (Ended(r) /\ run[r].cause \notin {"upstream", "normalize", "validation", "coercion"}) =>
            /\ run[r].recsBound
            /\ run[r].bp \in Ids(periods)
            /\ run[r].saved = Len(run[r].recs)

\* C20: a scheduled job never ends by raising, whatever failure its run of
\* fetch_process_save ended with; and once a job has returned, the next
\* fire of either job can start.
C20_JobReturnsNormally ==
    \A r \in Runs :
        /\ (run[r].caller = "pipeline" /\ run[r].job # "none") =>
              run[r].job \in {"running", "returned"}
        /\ (run[r].caller = "pipeline" /\ run[r].job = "returned" /\ calls < MaxCalls) =>
              (ENABLED StartJob(r, "service") /\ ENABLED StartJob(r, "daily"))

C20_Witness ==
    \E r \in Runs :
        /\ run[r].caller = "pipeline" /\ run[r].job = "returned"
        /\ run[r].outcome \in {"AzureApiError", "TypeError"}
        /\ calls < MaxCalls

\* A result with its columns and rows, every row as long as the columns.
WellFormed(result) ==
    /\ result.hasColumns /\ result.iterable
    /\ \A i \in 1..Len(result.rows) : Len(result.rows[i]) = Len(result.cols)

\* C21: normalize_cost_response returns one mapping per row, in row order,
\* that maps every column name to the value at its position in the row;
\* for a result without columns or with a row whose length is not the
\* number of columns it raises DataProcessingError.
C21_MappingPerRowOrError ==
    (run[1].pc = "done" /\ run[1].caller = "normalize") =>
        IF WellFormed(run[1].raw)
        THEN /\ run[1].outcome = "returned"
             /\ Len(run[1].norm) = Len(run[1].raw.rows)
             /\ \A i \in 1..Len(run[1].norm) :
                   /\ DOMAIN run[1].norm[i] = {run[1].raw.cols[j] : j \in 1..Len(run[1].raw.cols)}
                   /\ \A j \in 1..Len(run[1].raw.cols) :
                         run[1].norm[i][run[1].raw.cols[j]] = run[1].raw.rows[i][j]
        ELSE run[1].outcome = "DataProcessingError"

\* C22: a step in which a save is cancelled leaves every committed table as
\* it was and discards what the session wrote; the committed fact tables
\* change only in the commit of a save, which stores the fact rows of its
\* whole batch: no committed state holds a part of a batch.
C22_CancelLeavesNoPart ==
    [][\A r \in Runs :
          /\ (run[r].outcome # "CancelledError" /\ run'[r].outcome = "CancelledError") =>
                /\ UNCHANGED <<periods, services, facts, dfacts>>
                /\ tx'[r] = EmptyTx
          /\ (run'[r] # run[r] /\ <<facts, dfacts>>' # <<facts, dfacts>>) =>
                /\ run[r].pc = "s_commit" /\ run'[r].saved = Len(run[r].recs)
                /\ run[r].i = Len(run[r].recs) + 1
                /\ run[r].pending = <<>> /\ Dirty(r) = {}
                /\ facts' = View(r, "F") /\ dfacts' = View(r, "D")
      ]_vars

\* A save cancelled after it had written a service row and a fact row: none
\* of them is stored.
C22_Witness ==
    /\ \E r \in Runs : /\ run[r].pc = "done" /\ run[r].outcome = "CancelledError"
                       /\ run[r].at = "s_commit" /\ run[r].sid # 0
    /\ services = {} /\ facts = {}
    /\ nextId.S > 1 /\ nextId.F > 1

\* A text of exactly three uppercase letters.
ThreeUpper(s) == Len(s) = 3 /\ \A k \in 1..Len(s) : \E u \in 1..26 : Upper[u] = s[k]

\* C23: the currency of every record a preprocessor returns is exactly
\* three uppercase letters (the fallback INR when the mapping has no
\* Currency), as the fact tables' check on currency_code requires.
C23_CurrencyThreeUpper ==
    (run[1].pc = "done" /\ run[1].caller = "preprocess" /\ run[1].outcome = "returned") =>
        \A k \in 1..Len(run[1].recs) : ThreeUpper(run[1].recs[k].currency)

\* The name the record of an accepted mapping is to carry: the ServiceName
\* without the whitespace around it, or Unknown when it is absent or
\* nothing is left of it.
TrimmedName(raw) ==
    IF "ServiceName" \notin DOMAIN raw THEN Unknown
    ELSE IF Strip(raw.ServiceName.s) = <<>> THEN Unknown
    ELSE Strip(raw.ServiceName.s)

\* C24: the service_name of every record preprocess_service_costs returns
\* is the trimmed ServiceName of its mapping, or Unknown when that is
\* absent or empty, also after trimming; it is never the empty string.
C24_NameTrimmedOrUnknown ==
    (run[1].pc = "done" /\ run[1].caller = "preprocess" /\ run[1].kind = "service"
        /\ run[1].outcome = "returned" /\ Len(run[1].recs) = Len(run[1].norm)) =>
        \A k \in 1..Len(run[1].recs) :
            /\ run[1].recs[k].service_name = TrimmedName(run[1].norm[k])
            /\ run[1].recs[k].service_name # <<>>

\* C25: no step of the pipeline changes or removes a stored service row; a
\* call of get_or_create_azure_service leaves the table as it is when it
\* finds the name and writes one new row of that name when it does not; and
\* the preprocessing step reads and writes nothing of the store.
C25_ServiceRowsOnlyAdded ==
    [][/\ services \subseteq services'
       /\ \A r \in Runs :
             /\ Ids(tx'[r].S) \cap Ids(services) = {}
             /\ (run[r].pc = "s_svc" /\ run'[r] # run[r]) =>
                   UNCHANGED <<periods, services, facts, dfacts, nextId, tx>>
             /\ (run[r].pc = "s_svc_ins" /\ run'[r].pc \in {"s_fact", "s_flush"}) =>
                   /\ tx'[r].S = tx[r].S \cup
                        {[id |-> run'[r].sid, name |-> run[r].recs[run[r].i].service_name]}
                   /\ run'[r].sid \notin Ids(View(r, "S"))
                   /\ UNCHANGED services
             /\ (run[r].pc = "preprocess" /\ run'[r] # run[r]) =>
                   UNCHANGED <<periods, services, facts, dfacts, nextId, tx>>
      ]_vars

\* A run has added the row of a new name to a table that held another
\* service, which is stored as it was.
C25_Witness ==
    /\ \E x, y \in services : x.id < y.id /\ x.name # y.name
    /\ \E r \in Runs : run[r].pc = "done" /\ run[r].outcome = "returned"
                        /\ Len(run[r].recs) = 1

\* The committed fact rows of period pid under the natural key of rec, as
\* (amount, currency).
StoredFor(kind, rec, pid) ==
    IF kind = "service"
    THEN {<<f.amt, f.ccy>> : f \in FactsOf(rec.service_name, pid)}
    ELSE {<<f.amt, f.ccy>> : f \in {d \in dfacts : d.day = rec.usage_date /\ d.pid = pid}}

SameKey(kind, a, b) ==
    IF kind = "service" THEN a.service_name = b.service_name ELSE a.usage_date = b.usage_date

\* C28: a save of a batch with two records of the same natural key, alone
\* on the store and without a failure of the store, returns and leaves one
\* fact row for the key, with the amount and currency of the later record.
C28_LastWriteWinsInBatch ==
    \A r \in Runs :
        (/\ run[r].pc = "done" /\ run[r].caller = "save"
         /\ \A t \in Runs \ {r} : run[t].pc = "idle"
         /\ run[r].err \notin {"OperationalError", "DeadlockDetected"}
         /\ Len(run[r].recs) = 2
         /\ SameKey(run[r].kind, run[r].recs[1], run[r].recs[2])) =>
            /\ run[r].outcome = "returned"
            /\ StoredFor(run[r].kind, run[r].recs[2], run[r].bp)
                  = {<<run[r].recs[2].cost, run[r].recs[2].currency>>}

\* Rows a and b of a fact table agree on the natural key and on the time
\* they were made.
SameIdentity(T, a, b) ==
    /\ a.pid = b.pid /\ a.made = b.made
    /\ IF T = "F" THEN a.sid = b.sid ELSE a.day = b.day

\* C29: an upsert that finds the fact of its natural key and does not fail
\* queues no new row and writes nothing yet; the UPDATE of the flush writes a version of a row
\* the session sees, of the same key and the same time of making, and adds
\* no row; and a committed fact row keeps its key and its time of making
\* in every step.
C29_UpdateKeepsIdentity ==
    [][/\ \A T \in {"F", "D"} :
             \A a \in Tab(T) : \A b \in Tab(T)' : a.id = b.id => SameIdentity(T, a, b)
       /\ \A r \in Runs :
             /\ (run[r].pc = "s_fact" /\ run'[r] # run[r] /\ run'[r].pc # "done"
                   /\ Lookup(r, run[r].recs[run[r].i]) # {}) =>
                   /\ run'[r].pending = run[r].pending
                   /\ Ids(run'[r].loaded) \subseteq Ids(View(r, FactTable(r)))
                   /\ UNCHANGED <<facts, dfacts, tx>>
             /\ (run[r].pc = "s_flush" /\ Dirty(r) # {} /\ tx'[r] # tx[r]) =>
                   /\ Ids(tx'[r][FactTable(r)]) \subseteq Ids(View(r, FactTable(r)))
                   /\ \A b \in tx'[r][FactTable(r)] : \A a \in View(r, FactTable(r)) :
                         a.id = b.id => SameIdentity(FactTable(r), a, b)
      ]_vars

\* Two saves of one record each for the same key have returned, the later
\* with another amount: one fact row, made in the first call, with the
\* later amount.
C29_Witness ==
    /\ calls = 2
    /\ \A r \in Runs : run[r].pc = "done" /\ run[r].outcome = "returned"
                        /\ run[r].kind = "service" /\ Len(run[r].recs) = 1
    /\ \E r \in Runs : run[r].recs[1].cost = 1050
    /\ \E f \in facts : facts = {f} /\ f.amt = 2000 /\ f.made = 1

RECURSIVE Power(_, _)
Power(b, n) == IF n = 0 THEN 1 ELSE b * Power(b, n - 1)

\* The connection attempts made so far all failed.
AllFailed == \A i \in 1..Len(db.log) : ~db.log[i]

\* The state of wait_for_db agrees with the claim: no more attempts than
\* max_retries and none after a success; one wait after each failed attempt
\* but the last, the i-th being retry_interval * backoff_multiplier^(i-1);
\* at the end True exactly after a success and ConnectionError exactly
\* after max_retries failures.
WaitAsClaimed ==
    /\ Len(db.log) <= db.max_retries
    /\ \A i \in 1..Len(db.log) : db.log[i] => i = Len(db.log) /\ db.pc = "done"
    /\ Len(db.slept) = IF db.pc \in {"sleep", "done"} /\ db.log # <<>>
                       THEN Len(db.log) - 1 ELSE Len(db.log)
    /\ \A i \in 1..Len(db.slept) :
          db.slept[i] = db.retry_interval * Power(db.backoff_multiplier, i - 1)
    /\ db.pc = "done" =>
          /\ db.result \in {"True", "ConnectionError"}
          /\ db.result = "True" <=> ~AllFailed
          /\ db.result = "ConnectionError" <=>
                (AllFailed /\ Len(db.log) = db.max_retries)

\* C26: wait_for_db ends, after at most max_retries connection attempts:
\* with True at the first attempt that succeeds, with ConnectionError
\* exactly when max_retries attempts failed; it sleeps only between two
\* attempts, each time backoff_multiplier times longer, from retry_interval.
C26_WaitEndsWithinRetries ==
    /\ []WaitAsClaimed
    /\ (db.pc # "idle") ~> (db.pc = "done")

\* Three attempts were made and the third succeeded after waits of 2 and 6.
C26_Witness ==
    /\ db.pc = "done" /\ db.result = "True"
    /\ db.log = <<FALSE, FALSE, TRUE>> /\ db.slept = <<2, 6>>

\* C27: the handle refers to one instance or none.  A start while an
\* instance is held changes neither the handle nor the instances; a start
\* that fails ends with no handle; a start that succeeds holds an instance
\* made in that call; a shutdown with no handle changes nothing, one that
\* succeeds clears the handle and one that fails keeps it.
C27_OneSchedulerHeld ==
    [][/\ scheduler'.held \in 0..scheduler'.made
       /\ (scheduler'.op = "start" /\ scheduler' # scheduler) =>
             /\ scheduler.held # 0 =>
                   /\ scheduler'.held = scheduler.held
                   /\ scheduler'.made = scheduler.made
                   /\ scheduler'.did = "nothing"
             /\ (scheduler.held = 0 /\ scheduler'.did # "started") =>
                   scheduler'.held = 0
             /\ (scheduler.held = 0 /\ scheduler'.did = "started") =>
                   /\ scheduler'.held = scheduler'.made
                   /\ scheduler'.held > scheduler.made
       /\ (scheduler'.op = "shutdown" /\ scheduler' # scheduler) =>
             /\ scheduler'.made = scheduler.made
             /\ scheduler.held = 0 =>
                   scheduler'.held = 0 /\ scheduler'.did = "nothing"
             /\ scheduler'.did = "shut down" => scheduler'.held = 0
             /\ scheduler'.did = "shutdown raises" =>
                   scheduler'.held = scheduler.held /\ scheduler.held # 0
      ]_vars

\* A third instance is held, made by a start that found no handle after
\* two instances had been made.
C27_Witness ==
    /\ scheduler.held = 3 /\ scheduler.made = 3
    /\ scheduler.op = "start" /\ scheduler.did = "started"

\* The step in which the save of run r fails.
SaveFails(r) == run[r].pc \in SavePcs /\ run[r].err = "none" /\ run'[r].err # "none"

\* C30: in the step in which a run's save fails, the transaction rolled
\* back holds no version of a period row and is emptied, every committed
\* table stays as it was, and the period the run resolved is a committed
\* row of its window, flagged current unless the other run works on
\* another window.
C30_PeriodSurvivesSaveFailure ==
    [][\A r \in Runs : SaveFails(r) =>
          /\ tx[r].P = {}
          /\ tx' = [tx EXCEPT ![r] = EmptyTx]
          /\ UNCHANGED <<periods, services, facts, dfacts>>
          /\ \E p \in periods' :
                /\ p.id = run[r].bp /\ p.win = run[r].win
                /\ (\A t \in Runs : run[t].win \in {0, run[r].win}) => p.cur
      ]_vars

\* A run's save has failed after it had written a service row; the period
\* it resolved is committed and current, and no service or fact row is.
C30_Witness ==
    \E r \in Runs :
        /\ run[r].cause = "save" /\ run[r].err # "none"
        /\ run[r].at \in {"s_fact", "s_flush", "s_commit"}
        /\ \E p \in periods : p.id = run[r].bp /\ p.cur
        /\ services = {} /\ facts = {} /\ dfacts = {}
====
